---- MODULE Spec2Model ----
(***************************************************************************)
(* The pairing-code lifecycle and the session registry of the bot service  *)
(* (services/botService: activeSockets, pairingCodes,                      *)
(* createBotSessionWithPairing, verifyPairingCode) together with the       *)
(* /pair routes that drive it.  The protocol library is an opaque          *)
(* collaborator: it creates sockets, emits connection.update and           *)
(* creds.update events, and answers requestPairingCode.                    *)
(***************************************************************************)
EXTENDS Integers, Sequences, FiniteSets

VARIABLES
    activeSockets,  \* Map botId -> socket            (set of [key, socket])
    pairingCodes,   \* Map botId -> pairing data      (set of [key, code, socket, phoneNumber, createdAt])
    socks,          \* every socket makeWASocket has returned, in creation order
    timers,         \* pending setTimeout callbacks
    sessionDir,     \* botId -> does ./sessions/session_<botId> exist
    registered,     \* botId -> creds.registered as persisted for the bot
    now,            \* Date.now(), milliseconds since the process started
    req,            \* one POST /pair/generate request followed from body to response
    SESSION_ID,     \* config.SESSION_ID, the remote session reference
    SESSION_DIR,    \* does the directory SESSION_DIR exist
    CREDS_FILE,     \* does the file CREDS_FILE exist
    conn,           \* SessionManager.conn: 0 for null, else a socket of waSocks
    isConnected,    \* SessionManager.isConnected
    waSocks,        \* connection state of every socket connectToWhatsApp has made
    reconnects      \* pending setTimeout(() => this.connectToWhatsApp(), 5000)

\* the default session: sessionManager.js and the files it keeps
session == <<SESSION_ID, SESSION_DIR, CREDS_FILE, conn, isConnected, waSocks, reconnects>>

vars == <<activeSockets, pairingCodes, socks, timers, sessionDir, registered, now, req,
          session>>

----------------------------------------------------------------------------
(* Bounds of the model *)

\* sockets created, scheduled reconnects included
MaxSockets == 3
\* requestPairingCode invocations over all sockets
MaxPairReqs == 2
\* characters of a phoneNumber taken from PhoneChars
MaxPhoneLen == 11
\* sockets of the default session, scheduled reconnects included
MaxSessionSocks == 3
\* the Maps are keyed by bot id and every handler and callback closes over its
\* own botId, so entries of different bots never meet: one bot id carries the
\* per-bot behaviour
Bots == {"b1"}

\* request bodies' phoneNumber values, as character sequences
RawPhones ==
    { <<"+","1"," ","5","5","5"," ","0","1","0","0">>,
      <<"+","1"," ","(","5","5","5",")"," ","1","2","3","-","4","5","6","7">>,
      <<"1","5","5","5","1","2","3","4","5","6","7">> }

\* values of Math.random(), in thousandths
RandomDraws == {0, 999}

----------------------------------------------------------------------------
(* Program constants *)

PAIRING_TTL == 10 * 60 * 1000
RECONNECT_DELAY == 5000
LOGGED_OUT == 401
CODE_BASE == 10000000
CODE_SPAN == 90000000
CODE_DIGITS == 8
MIN_PHONE_DIGITS == 10

\* statusCode of lastDisconnect.error.output seen in a 'close' update
StatusCodes == {401, 428}

Digits == {"0","1","2","3","4","5","6","7","8","9"}

NoPhone == <<>>
NoCode == <<>>

\* characters of req.body.phoneNumber: a digit and two non-digits
PhoneChars == {"+", "5", " "}

\* every phoneNumber of at most MaxPhoneLen of these characters, and the
\* numbers of RawPhones
PhoneInputs ==
    UNION { [1..n -> PhoneChars] : n \in 0..MaxPhoneLen } \cup RawPhones

\* no request is being followed
NoRequest == [botId |-> "", phoneNumber |-> NoPhone, done |-> TRUE, status |-> 0,
              message |-> "", pairingCode |-> NoCode]

----------------------------------------------------------------------------
(* JavaScript built-ins used by the service *)

\* Map.prototype.has / get / set / delete on a set of entries keyed by .key
MapHas(m, k) == \E e \in m : e.key = k
MapGet(m, k) == CHOOSE e \in m : e.key = k
MapDelete(m, k) == { e \in m : e.key # k }
\* mutant of MapSet: the entry is added beside the one of the same key
MapSetKeepOld(m, e) == m \cup {e}
MapSet(m, e) == { x \in m : x.key # e.key } \cup {e}

DigitChar(d) ==
    CASE d = 0 -> "0" [] d = 1 -> "1" [] d = 2 -> "2" [] d = 3 -> "3"
      [] d = 4 -> "4" [] d = 5 -> "5" [] d = 6 -> "6" [] d = 7 -> "7"
      [] d = 8 -> "8" [] d = 9 -> "9"

\* Number.prototype.toString of a non-negative integer
RECURSIVE NumberToString(_)
NumberToString(n) ==
    IF n < 10 THEN <<DigitChar(n)>>
    ELSE NumberToString(n \div 10) \o <<DigitChar(n % 10)>>

\* mutant of StripNonDigits: the string is left as it is
StripNothing(s) == s

\* mutant of StripNonDigits: replace without the g flag, first match only
RECURSIVE StripFirstNonDigit(_)
StripFirstNonDigit(s) ==
    IF s = <<>> THEN <<>>
    ELSE IF Head(s) \notin Digits THEN Tail(s)
    ELSE <<Head(s)>> \o StripFirstNonDigit(Tail(s))

\* String.prototype.replace(/[^0-9]/g, '')
RECURSIVE StripNonDigits(_)
StripNonDigits(s) ==
    IF s = <<>> THEN <<>>
    ELSE (IF Head(s) \in Digits THEN <<Head(s)>> ELSE <<>>) \o StripNonDigits(Tail(s))

\* String.prototype.replace('+', ''): the first "+" only
RECURSIVE StripFirstPlus(_)
StripFirstPlus(s) ==
    IF s = <<>> THEN <<>>
    ELSE IF Head(s) = "+" THEN Tail(s)
    ELSE <<Head(s)>> \o StripFirstPlus(Tail(s))

\* /^\d{8}$/.test(code)
IsCodeFormat(c) == Len(c) = CODE_DIGITS /\ \A i \in 1..Len(c) : c[i] \in Digits

----------------------------------------------------------------------------
(* services/botService *)

\* generatePairingCode with Math.random() = k / 1000:
\* Math.floor(10000000 + Math.random() * 90000000).toString()
\* (CODE_SPAN is a multiple of 1000, so the floor is exact)
generatePairingCode(k) == NumberToString(CODE_BASE + k * (CODE_SPAN \div 1000))

GeneratedCodes == { generatePairingCode(k) : k \in RandomDraws }

\* request bodies' code values
SubmittedCodes == GeneratedCodes \cup { <<"1","2","3","4">> }

\* error.message of a failed requestPairingCode
ErrorMessages == {"Connection Closed"}

\* how a run of createBotSessionWithPairing ends: it returns, or
\* useMultiFileAuthState ("creds") or makeWASocket ("socket") throws
Outcomes == {"ok", "creds", "socket"}

ReconnectTimers == { t \in timers : t.kind = "reconnect" }
ExpiryTimers == { t \in timers : t.kind = "expiry" }

\* room left for one more socket
CanCreate == Len(socks) + Cardinality(ReconnectTimers) < MaxSockets

RECURSIVE SumPairReqs(_)
SumPairReqs(n) == IF n = 0 THEN 0 ELSE socks[n].pairReqs + SumPairReqs(n - 1)

\* room left for one more requestPairingCode
CanRequest == SumPairReqs(Len(socks)) < MaxPairReqs

\* a created socket that has not closed; its handlers are never unsubscribed
Live(s) == socks[s].connection # "close"

\* the module as loaded: both Maps empty
ServiceInit ==
    /\ activeSockets = {}
    /\ pairingCodes = {}
    /\ socks = <<>>
    /\ timers = {}
    /\ sessionDir = [b \in Bots |-> FALSE]
    /\ registered = [b \in Bots |-> FALSE]
    /\ now = 0

\* config.SESSION_ID: process.env.SESSION_ID || "IZUKA~...", never empty;
\* a MEGA reference, a URL, or base64 data
SessionIds == { <<"IZUKA~", "aIwknC7B">>, <<"http", "://host/creds.json">>, <<"eyJ">> }

\* String.prototype.startsWith
StartsWith(str, prefix) == Len(str) >= 1 /\ str[1] = prefix

\* new SessionManager(), with nothing on disk
SessionConstructed ==
    /\ SESSION_ID = <<"IZUKA~", "aIwknC7B">>
    /\ SESSION_DIR = FALSE
    /\ CREDS_FILE = FALSE
    /\ conn = 0
    /\ isConnected = FALSE
    /\ waSocks = <<>>
    /\ reconnects = 0

Init ==
    /\ ServiceInit
    /\ req = NoRequest
    /\ SessionConstructed

\* activeSockets.set(botId, socket)
StoreSocket(botId, s) ==
    activeSockets' = MapSet(activeSockets, [key |-> botId, socket |-> s])

\* pairingCodes.set(botId, {code, socket, phoneNumber, createdAt})
StorePairingCode(botId, s, phoneNumber, pairingCode) ==
    pairingCodes' = MapSet(pairingCodes,
        [key |-> botId, code |-> pairingCode, socket |-> s,
         phoneNumber |-> phoneNumber, createdAt |-> now])

\* setTimeout(() => { if (pairingCodes.has(botId)) ... }, 10 * 60 * 1000)
ScheduleExpiry(botId, s, pending) ==
    timers' = pending \cup
        { [kind |-> "expiry", sock |-> s, botId |-> botId,
           phoneNumber |-> NoPhone, due |-> now + PAIRING_TTL] }

\* createBotSessionWithPairing(botId, phoneNumber), from the resumption after
\* await useMultiFileAuthState (nothing is read or written before it) to the
\* return or the throw; pending are the callbacks pending besides its own
createBotSessionWithPairing(botId, phoneNumber, k, outcome, pending) ==
    LET s == Len(socks) + 1 IN
    IF outcome = "ok"
    THEN /\ sessionDir' = [sessionDir EXCEPT ![botId] = TRUE]
         /\ socks' = Append(socks,
                [botId |-> botId, phoneNumber |-> phoneNumber,
                 connection |-> "connecting", pairReqs |-> 0])
         /\ StoreSocket(botId, s)
         /\ IF ~registered[botId]
            THEN /\ StorePairingCode(botId, s, phoneNumber, generatePairingCode(k))
                 /\ ScheduleExpiry(botId, s, pending)
            ELSE /\ timers' = pending
                 /\ UNCHANGED pairingCodes
    ELSE /\ sessionDir' = IF outcome = "socket"
                          THEN [sessionDir EXCEPT ![botId] = TRUE]
                          ELSE sessionDir
         /\ timers' = pending
         /\ UNCHANGED <<activeSockets, pairingCodes, socks>>

\* what createBotSessionWithPairing returns when it does not throw
ReturnedCode(botId, k) ==
    IF registered[botId] THEN NoCode ELSE generatePairingCode(k)

\* the response of router.post('/generate')
GenerateResponse(botId, phoneNumber, k, outcome) ==
    IF phoneNumber = <<>>
    THEN [status |-> 400, success |-> FALSE,
          message |-> "Bot ID and phone number are required", pairingCode |-> NoCode]
    ELSE IF Len(StripNonDigits(phoneNumber)) < MIN_PHONE_DIGITS
    THEN [status |-> 400, success |-> FALSE,
          message |-> "Invalid phone number format", pairingCode |-> NoCode]
    ELSE IF outcome = "ok"
    THEN [status |-> 200, success |-> TRUE, message |-> "",
          pairingCode |-> ReturnedCode(botId, k)]
    ELSE [status |-> 500, success |-> FALSE,
          message |-> "Failed to generate pairing code", pairingCode |-> NoCode]

\* router.post('/generate')
PairGenerate(botId, phoneNumber, k, outcome) ==
    LET cleanNumber == StripNonDigits(phoneNumber) IN
    /\ CanCreate
    /\ IF Len(cleanNumber) < MIN_PHONE_DIGITS
       THEN UNCHANGED <<activeSockets, pairingCodes, socks, timers, sessionDir>>
       ELSE createBotSessionWithPairing(botId, <<"+">> \o cleanNumber, k,
                                        outcome, timers)
    /\ UNCHANGED <<registered, now>>

\* mutant of OnOpen: the pairing code survives the connection opening
OnOpenKeepsCode(botId) == UNCHANGED <<activeSockets, pairingCodes, timers>>

\* connection.update handler, connection === 'open'
OnOpen(botId) ==
    /\ pairingCodes' = MapDelete(pairingCodes, botId)
    /\ UNCHANGED <<activeSockets, timers>>

\* connection.update handler, connection === 'close'
OnClose(botId, phoneNumber, s, statusCode) ==
    LET shouldReconnect == statusCode # LOGGED_OUT IN
    IF shouldReconnect
    THEN /\ timers' = timers \cup
                { [kind |-> "reconnect", sock |-> s, botId |-> botId,
                   phoneNumber |-> phoneNumber, due |-> now + RECONNECT_DELAY] }
         /\ UNCHANGED <<activeSockets, pairingCodes>>
    ELSE /\ pairingCodes' = MapDelete(pairingCodes, botId)
         /\ activeSockets' = MapDelete(activeSockets, botId)
         /\ UNCHANGED timers

\* the library emits connection.update {connection: 'open'} on socket s
ConnOpen(s) ==
    /\ socks[s].connection = "connecting"
    /\ socks' = [socks EXCEPT ![s].connection = "open"]
    /\ OnOpen(socks[s].botId)
    /\ UNCHANGED <<sessionDir, registered, now>>

\* the library emits connection.update {connection: 'close', lastDisconnect}
ConnClose(s, statusCode) ==
    /\ Live(s)
    /\ statusCode # LOGGED_OUT => CanCreate
    /\ socks' = [socks EXCEPT ![s].connection = "close"]
    /\ OnClose(socks[s].botId, socks[s].phoneNumber, s, statusCode)
    /\ UNCHANGED <<sessionDir, registered, now>>

\* the library emits creds.update once the device is registered; saveCreds
\* writes the bundle
CredsUpdate(s) ==
    LET botId == socks[s].botId IN
    /\ Live(s)
    /\ ~registered[botId]
    /\ registered' = [registered EXCEPT ![botId] = TRUE]
    /\ sessionDir' = [sessionDir EXCEPT ![botId] = TRUE]
    /\ UNCHANGED <<activeSockets, pairingCodes, socks, timers, now>>

\* mutant of ExpiryCallback: the callback runs and deletes nothing
ExpiryCallbackNoDelete(botId) == UNCHANGED pairingCodes

\* the pairing-expiry callback
ExpiryCallback(botId) ==
    pairingCodes' = IF MapHas(pairingCodes, botId)
                    THEN MapDelete(pairingCodes, botId)
                    ELSE pairingCodes

\* a pairing-expiry callback runs, once it is due
FireExpiry(t) ==
    /\ t \in ExpiryTimers
    /\ now >= t.due
    /\ timers' = timers \ {t}
    /\ ExpiryCallback(t.botId)
    /\ UNCHANGED <<activeSockets, socks, sessionDir, registered, now>>

\* mutant of ReconnectCallback: the phone number is not passed on
ReconnectCallbackNoPhone(t, k, outcome) ==
    createBotSessionWithPairing(t.botId, NoPhone, k, outcome, timers \ {t})

\* the reconnect callback: () => createBotSessionWithPairing(botId, phoneNumber)
ReconnectCallback(t, k, outcome) ==
    createBotSessionWithPairing(t.botId, t.phoneNumber, k, outcome, timers \ {t})

\* a reconnect callback runs, once it is due
FireReconnect(t, k, outcome) ==
    /\ t \in ReconnectTimers
    /\ now >= t.due
    /\ ReconnectCallback(t, k, outcome)
    /\ UNCHANGED <<registered, now>>

\* the result verifyPairingCode returns; ok and msg are how
\* requestPairingCode settles when it is reached
verifyPairingCodeResult(botId, code, ok, msg) ==
    IF ~MapHas(pairingCodes, botId)
    THEN [success |-> FALSE, message |-> "Pairing code expired or invalid",
          detail |-> "", native |-> FALSE]
    ELSE IF MapGet(pairingCodes, botId).code # code
    THEN [success |-> FALSE, message |-> "Invalid pairing code",
          detail |-> "", native |-> FALSE]
    ELSE IF ok
    THEN [success |-> TRUE, message |-> "Pairing successful",
          detail |-> "", native |-> TRUE]
    ELSE [success |-> FALSE, message |-> "Pairing failed: ",
          detail |-> msg, native |-> TRUE]

\* mutant of verifyPairingCode: a wrong code burns the Pairing Entry
verifyPairingCodeBurnOnMismatch(botId, code, ok, msg) ==
    IF verifyPairingCodeResult(botId, code, ok, msg).native
    THEN /\ CanRequest
         /\ socks' = [socks EXCEPT ![MapGet(pairingCodes, botId).socket].pairReqs = @ + 1]
         /\ UNCHANGED pairingCodes
    ELSE /\ pairingCodes' = MapDelete(pairingCodes, botId)
         /\ UNCHANGED socks

\* mutant of verifyPairingCode: a failed requestPairingCode drops the entry
verifyPairingCodeDropOnFailure(botId, code, ok, msg) ==
    IF verifyPairingCodeResult(botId, code, ok, msg).native
    THEN /\ CanRequest
         /\ socks' = [socks EXCEPT ![MapGet(pairingCodes, botId).socket].pairReqs = @ + 1]
         /\ pairingCodes' = IF ok THEN pairingCodes ELSE MapDelete(pairingCodes, botId)
    ELSE UNCHANGED <<pairingCodes, socks>>

\* verifyPairingCode: the only state it touches is the socket it calls
\* requestPairingCode(phoneNumber.replace('+', '')) on
verifyPairingCode(botId, code, ok, msg) ==
    IF verifyPairingCodeResult(botId, code, ok, msg).native
    THEN LET pairingData == MapGet(pairingCodes, botId) IN
         /\ CanRequest
         /\ socks' = [socks EXCEPT ![pairingData.socket].pairReqs = @ + 1]
         /\ UNCHANGED pairingCodes
    ELSE UNCHANGED <<pairingCodes, socks>>

\* the response of router.post('/verify')
VerifyResponse(botId, code, ok, msg) ==
    LET result == verifyPairingCodeResult(botId, code, ok, msg) IN
    IF ~IsCodeFormat(code)
    THEN [status |-> 400, success |-> FALSE,
          message |-> "Invalid code format. Must be 8 digits.", detail |-> ""]
    ELSE IF result.success
    THEN [status |-> 200, success |-> TRUE,
          message |-> "Bot connected successfully!", detail |-> ""]
    ELSE [status |-> 400, success |-> FALSE,
          message |-> result.message, detail |-> result.detail]

\* router.post('/verify')
PairVerify(botId, code, ok, msg) ==
    /\ IF ~IsCodeFormat(code)
       THEN UNCHANGED <<pairingCodes, socks>>
       ELSE verifyPairingCode(botId, code, ok, msg)
    /\ UNCHANGED <<activeSockets, timers, sessionDir, registered, now>>

\* the names routes/pair.js binds from require('../services/botService')
Imported == {"createBotSessionWithPairing", "verifyPairingCode", "getConnectedBots"}

\* getBotStatus, as exported by the service
getBotStatus(botId) ==
    [status |-> IF MapHas(activeSockets, botId) THEN "connected" ELSE "disconnected",
     online |-> MapHas(activeSockets, botId)]

NoData == [status |-> "", online |-> FALSE]

\* the response of router.get('/status/:botId'): a name the route file does
\* not bind throws a ReferenceError inside the try block
StatusResponse(botId) ==
    IF "getBotStatus" \in Imported
    THEN [status |-> 200, success |-> TRUE, message |-> "", data |-> getBotStatus(botId)]
    ELSE [status |-> 500, success |-> FALSE, message |-> "Failed to get bot status",
          data |-> NoData]

\* router.get('/status/:botId')
PairStatus(botId) ==
    UNCHANGED <<activeSockets, pairingCodes, socks, timers, sessionDir, registered, now>>

\* getConnectedBots; users are the sockets whose socket.user is set
getConnectedBots(users) ==
    { r.key : r \in { x \in activeSockets : x.socket \in users } }

\* the response of router.get('/connected')
ConnectedResponse(users) ==
    IF "getConnectedBots" \in Imported
    THEN [status |-> 200, success |-> TRUE, message |-> "",
          total |-> Cardinality(getConnectedBots(users))]
    ELSE [status |-> 500, success |-> FALSE,
          message |-> "Failed to fetch connected bots", total |-> 0]

\* router.get('/connected')
PairConnected ==
    UNCHANGED <<activeSockets, pairingCodes, socks, timers, sessionDir, registered, now>>

\* time passes, up to the next due time of a pending callback: a callback
\* that is due runs before the clock moves on, in any order with the requests
\* and events of that instant
Tick ==
    /\ timers # {}
    /\ \A t \in timers : t.due > now
    /\ \E t \in timers : (\A u \in timers : t.due <= u.due) /\ now' = t.due
    /\ UNCHANGED <<activeSockets, pairingCodes, socks, timers, sessionDir, registered>>

Next ==
    \/ \E b \in Bots, p \in RawPhones, k \in RandomDraws, o \in Outcomes :
          PairGenerate(b, p, k, o) /\ UNCHANGED <<req, session>>
    \/ \E s \in 1..Len(socks) : ConnOpen(s) /\ UNCHANGED <<req, session>>
    \/ \E s \in 1..Len(socks), code \in StatusCodes :
          ConnClose(s, code) /\ UNCHANGED <<req, session>>
    \/ \E s \in 1..Len(socks) : CredsUpdate(s) /\ UNCHANGED <<req, session>>
    \/ \E t \in timers : FireExpiry(t) /\ UNCHANGED <<req, session>>
    \/ \E t \in timers, k \in RandomDraws, o \in Outcomes :
          FireReconnect(t, k, o) /\ UNCHANGED <<req, session>>
    \/ \E b \in Bots, c \in SubmittedCodes, ok \in BOOLEAN, msg \in ErrorMessages :
          PairVerify(b, c, ok, msg) /\ UNCHANGED <<req, session>>
    \/ \E b \in Bots : PairStatus(b) /\ UNCHANGED <<req, session>>
    \/ PairConnected /\ UNCHANGED <<req, session>>
    \/ Tick /\ UNCHANGED <<req, session>>

Spec == Init /\ [][Next]_vars

----------------------------------------------------------------------------
(* One POST /pair/generate request, from any body to its response *)

RequestInit ==
    /\ ServiceInit
    /\ SessionConstructed
    /\ req \in { [botId |-> b, phoneNumber |-> p, done |-> FALSE, status |-> 0,
                  message |-> "", pairingCode |-> NoCode] :
                    b \in Bots, p \in PhoneInputs }

\* router.post('/generate') handles the request and answers it
Respond(k, outcome) ==
    LET response == GenerateResponse(req.botId, req.phoneNumber, k, outcome) IN
    /\ ~req.done
    /\ PairGenerate(req.botId, req.phoneNumber, k, outcome)
    /\ req' = [req EXCEPT !.done = TRUE, !.status = response.status,
                          !.message = response.message,
                          !.pairingCode = response.pairingCode]

RequestNext ==
    \E k \in RandomDraws, o \in Outcomes : Respond(k, o) /\ UNCHANGED session

RequestSpec == RequestInit /\ [][RequestNext]_vars

----------------------------------------------------------------------------
(* The default session: sessionManager.js and routes/session.js *)

service == <<activeSockets, pairingCodes, socks, timers, sessionDir, registered, now>>

\* how a download may end
DownloadOutcomes == {"ok", "fail"}
\* how connectToWhatsApp may end: it returns the socket, useMultiFileAuthState
\* throws, or fetchLatestBaileysVersion / makeWASocket throws
ConnectOutcomes == {"ok", "auth", "socket"}
\* how fs.remove may end
RemoveOutcomes == {"ok", "fail"}

\* the process starts with nothing on disk or with a session saved before
SessionInit ==
    /\ ServiceInit
    /\ req = NoRequest
    /\ SESSION_ID \in SessionIds
    /\ CREDS_FILE \in BOOLEAN
    /\ SESSION_DIR = CREDS_FILE
    /\ conn = 0
    /\ isConnected = FALSE
    /\ waSocks = <<>>
    /\ reconnects = 0

\* room left for one more socket of the default session
CanConnect == Len(waSocks) + reconnects < MaxSessionSocks

\* downloadSession: downloadFromMega calls this.fetchSessionData, which the
\* class does not define, and so always throws; downloadFromURL and
\* decodeSession write CREDS_FILE unless the fetch or the decoding throws
DownloadSucceeds(dl) ==
    /\ ~StartsWith(SESSION_ID, "IZUKA~")
    /\ dl = "ok"

\* connectToWhatsApp
connectToWhatsApp(co, dir) ==
    IF co = "ok"
    THEN /\ SESSION_DIR' = TRUE
         /\ waSocks' = Append(waSocks, "connecting")
         /\ conn' = Len(waSocks) + 1
    ELSE /\ SESSION_DIR' = IF co = "socket" THEN TRUE ELSE dir
         /\ UNCHANGED <<conn, waSocks>>

\* mutant of initializeSession: a failed download is passed over and the
\* connection is made without credentials
initializeSessionFallsBack(dl, co) ==
    /\ CREDS_FILE' = (CREDS_FILE \/ (SESSION_ID # <<>> /\ DownloadSucceeds(dl)))
    /\ connectToWhatsApp(co, TRUE)

\* initializeSession, entered when fs.existsSync(CREDS_FILE) is hasLocalSession
initializeSessionFrom(hasLocalSession, dl, co) ==
    IF ~hasLocalSession /\ SESSION_ID # <<>>
    THEN IF DownloadSucceeds(dl)
         THEN /\ CREDS_FILE' = TRUE
              /\ connectToWhatsApp(co, TRUE)
         ELSE /\ SESSION_DIR' = TRUE
              /\ CREDS_FILE' = hasLocalSession
              /\ UNCHANGED <<conn, waSocks>>
    ELSE /\ CREDS_FILE' = hasLocalSession
         /\ connectToWhatsApp(co, TRUE)

\* initializeSession
initializeSession(dl, co) == initializeSessionFrom(CREDS_FILE, dl, co)

\* what initializeSession gives its caller: the socket, or the error thrown
initializeSessionResult(dl, co) ==
    IF ~CREDS_FILE /\ SESSION_ID # <<>> /\ ~DownloadSucceeds(dl)
    THEN [threw |-> TRUE, error |-> "download"]
    ELSE IF co # "ok"
    THEN [threw |-> TRUE, error |-> "connect"]
    ELSE [threw |-> FALSE, error |-> ""]

\* a call of sessionManager.initializeSession() at start-up
InitializeSession(dl, co) ==
    /\ CanConnect
    /\ initializeSession(dl, co)
    /\ UNCHANGED <<SESSION_ID, isConnected, reconnects>>
    /\ UNCHANGED <<service, req>>

\* clearSession: errors of fs.remove are logged and swallowed
clearSession(rm) ==
    IF SESSION_DIR /\ rm = "ok"
    THEN SESSION_DIR' = FALSE /\ CREDS_FILE' = FALSE
    ELSE UNCHANGED <<SESSION_DIR, CREDS_FILE>>

\* connection.update handler of the default session, connection === 'open'
SessionOpen(s) ==
    /\ waSocks[s] = "connecting"
    /\ waSocks' = [waSocks EXCEPT ![s] = "open"]
    /\ isConnected' = TRUE
    /\ UNCHANGED <<SESSION_ID, SESSION_DIR, CREDS_FILE, conn, reconnects>>
    /\ UNCHANGED <<service, req>>

\* connection.update handler of the default session, connection === 'close'
SessionClose(s, statusCode, rm) ==
    LET shouldReconnect == statusCode # LOGGED_OUT IN
    /\ waSocks[s] # "close"
    /\ shouldReconnect => CanConnect
    /\ waSocks' = [waSocks EXCEPT ![s] = "close"]
    /\ IF shouldReconnect
       THEN reconnects' = reconnects + 1 /\ UNCHANGED <<SESSION_DIR, CREDS_FILE>>
       ELSE clearSession(rm) /\ UNCHANGED reconnects
    /\ UNCHANGED <<SESSION_ID, conn, isConnected>>
    /\ UNCHANGED <<service, req>>

\* creds.update handler of the default session: saveCreds writes creds.json
SessionCredsUpdate(s) ==
    /\ waSocks[s] # "close"
    /\ SESSION_DIR' = TRUE
    /\ CREDS_FILE' = TRUE
    /\ UNCHANGED <<SESSION_ID, conn, isConnected, waSocks, reconnects>>
    /\ UNCHANGED <<service, req>>

\* the reconnect callback: () => this.connectToWhatsApp()
SessionReconnect(co) ==
    /\ reconnects > 0
    /\ reconnects' = reconnects - 1
    /\ connectToWhatsApp(co, SESSION_DIR)
    /\ UNCHANGED <<SESSION_ID, CREDS_FILE, isConnected>>
    /\ UNCHANGED <<service, req>>

\* router.delete('/clear')
SessionClear(rm) ==
    /\ clearSession(rm)
    /\ UNCHANGED <<SESSION_ID, conn, isConnected, waSocks, reconnects>>
    /\ UNCHANGED <<service, req>>

\* router.post('/restart'): clearSession, then initializeSession
SessionRestart(rm, dl, co) ==
    LET cleared == SESSION_DIR /\ rm = "ok" IN
    /\ CanConnect
    /\ initializeSessionFrom(CREDS_FILE /\ ~cleared, dl, co)
    /\ UNCHANGED <<SESSION_ID, isConnected, reconnects>>
    /\ UNCHANGED <<service, req>>

\* the response of router.post('/restart')
RestartResponse(rm, dl, co) ==
    LET cleared == SESSION_DIR /\ rm = "ok"
        failed == \/ (~(CREDS_FILE /\ ~cleared) /\ SESSION_ID # <<>> /\ ~DownloadSucceeds(dl))
                  \/ co # "ok"
    IN IF failed
       THEN [status |-> 500, success |-> FALSE, message |-> "error.message"]
       ELSE [status |-> 200, success |-> TRUE, message |-> "Session restarted"]

\* getStatus
getStatus == [isConnected |-> isConnected, sessionExists |-> CREDS_FILE]

\* router.get('/status') of routes/session.js
SessionStatus == UNCHANGED vars

SessionNext ==
    \/ \E dl \in DownloadOutcomes, co \in ConnectOutcomes : InitializeSession(dl, co)
    \/ \E s \in 1..Len(waSocks) : SessionOpen(s)
    \/ \E s \in 1..Len(waSocks), code \in StatusCodes, rm \in RemoveOutcomes :
          SessionClose(s, code, rm)
    \/ \E s \in 1..Len(waSocks) : SessionCredsUpdate(s)
    \/ \E co \in ConnectOutcomes : SessionReconnect(co)
    \/ \E rm \in RemoveOutcomes : SessionClear(rm)
    \/ \E rm \in RemoveOutcomes, dl \in DownloadOutcomes, co \in ConnectOutcomes :
          SessionRestart(rm, dl, co)
    \/ SessionStatus

SessionSpec == SessionInit /\ [][SessionNext]_vars

----------------------------------------------------------------------------
(* Pairing Table and Registry: claims C1 - C5 *)

EntriesOf(b) == { e \in pairingCodes : e.key = b }
LiveSocketsOf(b) == { s \in 1..Len(socks) : socks[s].botId = b /\ Live(s) }
HasExpiryTimer(s) == \E t \in ExpiryTimers : t.sock = s

\* the step creates a Pairing Entry for bot b, which had one already
ReplacesEntry(b) ==
    /\ MapHas(pairingCodes, b)
    /\ Len(socks') = Len(socks) + 1
    /\ socks'[Len(socks')].botId = b
    /\ ~registered[b]

\* C1: in every reachable state the Pairing Table holds at most one Pairing
\* Entry per bot id, and a run of createBotSessionWithPairing that creates an
\* entry for a bot id that has one leaves the new entry alone in the table:
\* it belongs to the new socket, is stamped now, and a verify reaches the
\* native pairing call only with the new entry's code
C1_OneEntryPerBot ==
    /\ [](\A b \in Bots : Cardinality(EntriesOf(b)) <= 1)
    /\ [][\A b \in Bots : ReplacesEntry(b) =>
            /\ Cardinality(EntriesOf(b)') = 1
            /\ \A e \in EntriesOf(b)' :
                  /\ e.socket = Len(socks')
                  /\ e.createdAt = now
                  /\ e.code \in GeneratedCodes
                  /\ \A c \in SubmittedCodes, msg \in ErrorMessages :
                        (verifyPairingCodeResult(b, c, TRUE, msg).native)' => c = e.code
         ]_vars

\* C1 witness: socket 1 never opened, closed or expired, so its entry was in
\* the table when socket 2 was created, and the entry now is socket 2's
C1_Witness ==
    /\ Len(socks) = 2
    /\ socks[1].connection = "connecting"
    /\ HasExpiryTimer(1)
    /\ \E e \in pairingCodes : e.socket = 2

\* C2: for every bot id at most one socket is live (created, not closed,
\* handlers subscribed)
C2_AtMostOneLive == \A b \in Bots : Cardinality(LiveSocketsOf(b)) <= 1

\* C3 as claimed: no Pairing Entry is present at a time >= its creation time
\* + 10 minutes
C3_GoneAtTTL == \A e \in pairingCodes : now < e.createdAt + PAIRING_TTL

\* C3 as amended: a Pairing Entry is present only while its own expiry
\* callback, due 10 minutes after its creation, has not run; and with no
\* entry for the bot id every well-formed code is answered 400 'Pairing code
\* expired or invalid'
C3_PresentOnlyUntilCallback ==
    /\ \A e \in pairingCodes :
          \E t \in ExpiryTimers :
              /\ t.sock = e.socket
              /\ t.botId = e.key
              /\ t.due = e.createdAt + PAIRING_TTL
    /\ \A b \in Bots, c \in SubmittedCodes, ok \in BOOLEAN, msg \in ErrorMessages :
          (~MapHas(pairingCodes, b) /\ IsCodeFormat(c)) =>
              /\ VerifyResponse(b, c, ok, msg).status = 400
              /\ VerifyResponse(b, c, ok, msg).message = "Pairing code expired or invalid"

\* C3 witness: the only socket never opened or closed, the bot is not
\* registered, so the entry of the socket was removed by its expiry callback
C3_Witness ==
    /\ Len(socks) = 1
    /\ socks[1].connection = "connecting"
    /\ ~registered[socks[1].botId]
    /\ ~HasExpiryTimer(1)
    /\ pairingCodes = {}
    /\ now >= PAIRING_TTL

\* C4: a verifyPairingCode that returns success leaves no Pairing Entry for
\* the bot id, and the same verify repeated at once is answered 400 'Pairing
\* code expired or invalid'
C4_SuccessConsumesEntry ==
    [][\A b \in Bots, c \in SubmittedCodes, msg \in ErrorMessages :
          (VerifyResponse(b, c, TRUE, msg).success /\ PairVerify(b, c, TRUE, msg)) =>
              /\ ~MapHas(pairingCodes', b)
              /\ (VerifyResponse(b, c, TRUE, msg).status)' = 400
              /\ (VerifyResponse(b, c, TRUE, msg).message)' = "Pairing code expired or invalid"
      ]_vars

\* C5: requestPairingCode is invoked at most once per Pairing Entry, that is
\* per socket, each entry being created with a socket of its own
C5_NativeAtMostOnce == \A s \in 1..Len(socks) : socks[s].pairReqs <= 1

----------------------------------------------------------------------------
(* Verification: claims C6, C7 *)

Mismatches(b, c) ==
    /\ IsCodeFormat(c)
    /\ MapHas(pairingCodes, b)
    /\ MapGet(pairingCodes, b).code # c

Matches(b, c) ==
    /\ IsCodeFormat(c)
    /\ MapHas(pairingCodes, b)
    /\ MapGet(pairingCodes, b).code = c

\* C6: a verify whose code differs from the stored one returns 'Invalid
\* pairing code' (HTTP 400) without reaching requestPairingCode, and leaves
\* the Pairing Table, the Registry and the sockets as they were, so that
\* repeating it gives the same result in the same state
C6_MismatchChangesNothing ==
    /\ [](\A b \in Bots, c \in SubmittedCodes, ok \in BOOLEAN, msg \in ErrorMessages :
            Mismatches(b, c) =>
                /\ verifyPairingCodeResult(b, c, ok, msg) =
                      [success |-> FALSE, message |-> "Invalid pairing code",
                       detail |-> "", native |-> FALSE]
                /\ VerifyResponse(b, c, ok, msg).status = 400
                /\ VerifyResponse(b, c, ok, msg).message = "Invalid pairing code")
    /\ [][\A b \in Bots, c \in SubmittedCodes, ok \in BOOLEAN, msg \in ErrorMessages :
            (Mismatches(b, c) /\ PairVerify(b, c, ok, msg)) =>
                /\ UNCHANGED <<pairingCodes, activeSockets, socks>>
                /\ Mismatches(b, c)'
         ]_vars

\* C6 witness: an entry is stored and a well-formed code that differs from
\* its code can be submitted
C6_Witness ==
    \E b \in Bots, c \in SubmittedCodes : Mismatches(b, c)

\* C7: when the code matches and requestPairingCode fails, verifyPairingCode
\* returns the failure 'Pairing failed: <error>' (HTTP 400) instead of
\* throwing, the Pairing Entry is unchanged, and a verify with the same code
\* reaches requestPairingCode again
C7_FailedRequestKeepsEntry ==
    /\ [](\A b \in Bots, c \in SubmittedCodes, msg \in ErrorMessages :
            Matches(b, c) =>
                /\ verifyPairingCodeResult(b, c, FALSE, msg) =
                      [success |-> FALSE, message |-> "Pairing failed: ",
                       detail |-> msg, native |-> TRUE]
                /\ VerifyResponse(b, c, FALSE, msg).status = 400)
    /\ [][\A b \in Bots, c \in SubmittedCodes, msg \in ErrorMessages :
            (Matches(b, c) /\ PairVerify(b, c, FALSE, msg)) =>
                /\ pairingCodes' = pairingCodes
                /\ socks'[MapGet(pairingCodes, b).socket].pairReqs =
                      socks[MapGet(pairingCodes, b).socket].pairReqs + 1
                /\ (verifyPairingCodeResult(b, c, FALSE, msg).native)'
         ]_vars

\* C7 witness: requestPairingCode has been called on the socket of an entry
\* that is still in the table (the call that fails leaves this state)
C7_Witness ==
    \E e \in pairingCodes : socks[e.socket].pairReqs >= 1

----------------------------------------------------------------------------
(* Closure and reconnect: claims C8 - C10 *)

\* C8: once the close handler has run for a 'logged out' closure, the bot id
\* has no Pairing Entry, no Registry entry and no credential directory
C8_LogoutClearsAll ==
    [][\A s \in 1..Len(socks) :
          ConnClose(s, LOGGED_OUT) =>
              /\ ~MapHas(pairingCodes', socks[s].botId)
              /\ ~MapHas(activeSockets', socks[s].botId)
              /\ ~sessionDir'[socks[s].botId]
      ]_vars

\* C9: a bot id whose Registry entry is gone gets a Registry entry again only
\* by a create request, never by a timer or callback
C9_NoConnectionWithoutRequest ==
    [][\A b \in Bots :
          (~MapHas(activeSockets, b) /\ MapHas(activeSockets', b)) =>
              \E p \in RawPhones, k \in RandomDraws, o \in Outcomes :
                  PairGenerate(b, p, k, o)
      ]_vars

HasReconnectTimer(s) == \E t \in ReconnectTimers : t.sock = s

----------------------------------------------------------------------------
(* Stale callbacks and the open event: claims C11 - C13 *)

\* C11: the expiry callback scheduled with the Pairing Entry of one socket
\* leaves alone an entry of the same bot id that belongs to another socket
\* and has not been in the table for its 10 minutes
C11_StaleExpiryIsNoop ==
    [][\A t \in timers :
          FireExpiry(t) =>
              \A e \in pairingCodes :
                  (e.key = t.botId /\ e.socket # t.sock
                      /\ now < e.createdAt + PAIRING_TTL) => e \in pairingCodes'
      ]_vars

\* the Registry handle of the timer's bot id was stored after the timer was
\* scheduled: it belongs to a socket created, with its Pairing Entry, later
\* than the close that scheduled the reconnect
ReplacedSinceScheduled(t) ==
    \E e \in pairingCodes, r \in activeSockets :
        /\ e.key = t.botId /\ r.key = t.botId
        /\ r.socket = e.socket
        /\ e.socket # t.sock
        /\ e.createdAt > t.due - RECONNECT_DELAY

\* C12: a reconnect callback that finds the Registry handle of its bot id
\* replaced since it was scheduled creates no connection and writes neither
\* the Registry nor the Pairing Table
C12_StaleReconnectIsNoop ==
    [][\A t \in timers, k \in RandomDraws, o \in Outcomes :
          (ReplacedSinceScheduled(t) /\ FireReconnect(t, k, o)) =>
              UNCHANGED <<activeSockets, pairingCodes, socks>>
      ]_vars

\* C13: once the handler of a connection 'open' event has run, the bot id of
\* the socket has no Pairing Entry and the Registry is as it was
C13_OpenDeletesEntry ==
    [][\A s \in 1..Len(socks) :
          ConnOpen(s) =>
              /\ ~MapHas(pairingCodes', socks[s].botId)
              /\ activeSockets' = activeSockets
              /\ (MapHas(activeSockets, socks[s].botId)
                    => MapHas(activeSockets', socks[s].botId))
      ]_vars

\* C13 witness: the only socket is open, its entry is gone although its
\* expiry callback has not run, and the Registry still holds the socket
C13_Witness ==
    /\ Len(socks) = 1
    /\ socks[1].connection = "open"
    /\ HasExpiryTimer(1)
    /\ pairingCodes = {}
    /\ \E r \in activeSockets : r.key = socks[1].botId /\ r.socket = 1

----------------------------------------------------------------------------
(* Responses of the /pair routes: claim C14 *)

\* C14: a 200 response of POST /pair/generate carries an 8-digit code in
\* [10000000, 99999999], and that code is the one the Pairing Entry of the
\* bot id holds when the response is sent, registered credentials or not
C14_ResponseCarriesStoredCode ==
    [][\A b \in Bots, p \in RawPhones, k \in RandomDraws :
          (GenerateResponse(b, p, k, "ok").status = 200 /\ PairGenerate(b, p, k, "ok")) =>
              /\ IsCodeFormat(GenerateResponse(b, p, k, "ok").pairingCode)
              /\ GenerateResponse(b, p, k, "ok").pairingCode \in GeneratedCodes
              /\ MapHas(pairingCodes', b)
              /\ MapGet(pairingCodes', b).code = GenerateResponse(b, p, k, "ok").pairingCode
      ]_vars

----------------------------------------------------------------------------
(* Phone number validation: claims C15, C19 *)

\* '+1 555 0100'
ScenarioPhone == <<"+","1"," ","5","5","5"," ","0","1","0","0">>
\* '+1 (555) 123-4567'
ExamplePhone == <<"+","1"," ","(","5","5","5",")"," ","1","2","3","-","4","5","6","7">>

DigitCount(s) == Cardinality({ i \in 1..Len(s) : s[i] \in Digits })

\* C15 as claimed: the request with phoneNumber '+1 555 0100' passes
\* validation and, when answered 200, has created a Pairing Entry for b1 and
\* carries an 8-character numeric pairingCode
C15_ScenarioPhoneAccepted ==
    (req.done /\ req.botId = "b1" /\ req.phoneNumber = ScenarioPhone) =>
        /\ req.status # 400
        /\ req.status = 200 =>
              /\ MapHas(pairingCodes, "b1")
              /\ IsCodeFormat(req.pairingCode)

\* C15 as amended: '+1 555 0100' has 8 digits, so the request is answered 400
\* 'Invalid phone number format' and creates nothing; '+1 (555) 123-4567'
\* has 11 digits and passes: answered 200, the request has created a socket
\* and a Pairing Entry for b1 with phone number '+15551234567', and the
\* response carries the entry's 8-character numeric code
C15_ScenarioPhoneRejected ==
    /\ (req.done /\ req.botId = "b1" /\ req.phoneNumber = ScenarioPhone) =>
          /\ req.status = 400
          /\ req.message = "Invalid phone number format"
          /\ socks = <<>> /\ activeSockets = {} /\ pairingCodes = {}
          /\ timers = {} /\ ~sessionDir["b1"]
    /\ (req.done /\ req.botId = "b1" /\ req.phoneNumber = ExamplePhone) =>
          /\ req.status # 400
          /\ req.status = 200 =>
                /\ Len(socks) = 1 /\ sessionDir["b1"]
                /\ MapHas(activeSockets, "b1")
                /\ MapHas(pairingCodes, "b1")
                /\ MapGet(pairingCodes, "b1").phoneNumber =
                      <<"+","1","5","5","5","1","2","3","4","5","6","7">>
                /\ MapGet(pairingCodes, "b1").code = req.pairingCode
                /\ IsCodeFormat(req.pairingCode)

\* C15 witness: the request with '+1 555 0100' has been answered
C15_Witness ==
    req.done /\ req.botId = "b1" /\ req.phoneNumber = ScenarioPhone /\ req.status = 400

\* C19: removing the non-digits of a phoneNumber gives a string of digits
\* only, the digits of the input, that the removal leaves as it is; and the
\* request is answered 400 exactly when that string has fewer than 10 digits
C19_NormalizeIdempotent ==
    LET cleanNumber == StripNonDigits(req.phoneNumber) IN
    /\ StripNonDigits(cleanNumber) = cleanNumber
    /\ \A i \in 1..Len(cleanNumber) : cleanNumber[i] \in Digits
    /\ Len(cleanNumber) = DigitCount(req.phoneNumber)
    /\ req.done => (req.status = 400 <=> DigitCount(req.phoneNumber) < MIN_PHONE_DIGITS)

\* C19 witness: a phoneNumber with non-digits and exactly 10 digits has been
\* answered, and not with 400
C19_Witness ==
    /\ req.done /\ req.status # 400
    /\ DigitCount(req.phoneNumber) = MIN_PHONE_DIGITS
    /\ Len(req.phoneNumber) > MIN_PHONE_DIGITS

----------------------------------------------------------------------------
(* Errors and read-only routes: claims C16, C17 *)

\* C16: a request that meets a failure of the library (loading credentials,
\* creating the socket, requestPairingCode) is answered 500 with a fixed
\* message, and the error's own message is not in the response
C16_LibraryFailuresAre500 ==
    /\ \A b \in Bots, p \in RawPhones, k \in RandomDraws, o \in Outcomes \ {"ok"} :
          Len(StripNonDigits(p)) >= MIN_PHONE_DIGITS =>
              /\ GenerateResponse(b, p, k, o).status = 500
              /\ GenerateResponse(b, p, k, o).message = "Failed to generate pairing code"
    /\ \A b \in Bots, c \in SubmittedCodes, msg \in ErrorMessages :
          Matches(b, c) =>
              /\ VerifyResponse(b, c, FALSE, msg).status = 500
              /\ VerifyResponse(b, c, FALSE, msg).detail = ""

\* C17: GET /pair/status/:botId answers 200, with status 'connected' when
\* the Registry holds a handle for the bot id and 'disconnected' when not
C17_StatusReflectsRegistry ==
    \A b \in Bots :
        /\ StatusResponse(b).status = 200
        /\ MapHas(activeSockets, b) => StatusResponse(b).data.status = "connected"
        /\ ~MapHas(activeSockets, b) => StatusResponse(b).data.status = "disconnected"

----------------------------------------------------------------------------
(* Pairing Entry and Registry handle: claim C20 *)

\* C20: a bot id that has a Pairing Entry has a Registry entry, and the
\* socket of the Pairing Entry, the one requestPairingCode is called on, is
\* the socket the Registry holds for the bot id
C20_EntrySocketIsRegistered ==
    \A e \in pairingCodes :
        /\ MapHas(activeSockets, e.key)
        /\ MapGet(activeSockets, e.key).socket = e.socket

----------------------------------------------------------------------------
(* Session initialisation: claim C18 *)

DownloadNeeded == ~CREDS_FILE /\ SESSION_ID # <<>>

\* C18: initializeSession attempts the download exactly when there is no
\* local credential file and a remote reference is configured; when the
\* download fails initializeSession throws that error, connectToWhatsApp is
\* not reached and the connection handle stays as it was
C18_DownloadFailureIsFatal ==
    /\ [](\A dl \in DownloadOutcomes, co \in ConnectOutcomes :
            /\ (DownloadNeeded /\ ~DownloadSucceeds(dl)) =>
                  initializeSessionResult(dl, co) = [threw |-> TRUE, error |-> "download"]
            /\ ~DownloadNeeded =>
                  /\ initializeSessionResult(dl, co).error # "download"
                  /\ initializeSessionResult(dl, co) = initializeSessionResult("ok", co))
    /\ [][\A dl \in DownloadOutcomes, co \in ConnectOutcomes :
            InitializeSession(dl, co) =>
                /\ (DownloadNeeded /\ ~DownloadSucceeds(dl)) =>
                      /\ conn' = conn /\ waSocks' = waSocks
                      /\ ~CREDS_FILE'
                /\ (DownloadNeeded /\ DownloadSucceeds(dl)) => CREDS_FILE'
                /\ ~DownloadNeeded => CREDS_FILE' = CREDS_FILE
                /\ (~initializeSessionResult(dl, co).threw) =>
                      /\ Len(waSocks') = Len(waSocks) + 1
                      /\ conn' = Len(waSocks')
         ]_vars

\* C18 witness: initializeSession has made the session directory, the
\* download has failed, and there is neither a credential file nor a socket
C18_Witness ==
    /\ SESSION_DIR /\ ~CREDS_FILE
    /\ conn = 0 /\ waSocks = <<>>

----------------------------------------------------------------------------
(* Events of superseded handles and the default session's flag: C21, C22 *)

\* the Registry holds another socket than s for the bot id of s
Superseded(s) ==
    /\ MapHas(activeSockets, socks[s].botId)
    /\ MapGet(activeSockets, socks[s].botId).socket # s

\* C21: a connection 'open' or 'close' event of a socket that the Registry
\* has replaced leaves the Registry as it is and keeps the Pairing Entry
\* that belongs to the Registry's current socket
C21_StaleEventsChangeNothing ==
    [][\A s \in 1..Len(socks) :
          (/\ Superseded(s)
           /\ \/ ConnOpen(s)
              \/ \E code \in StatusCodes : ConnClose(s, code)) =>
              /\ activeSockets' = activeSockets
              /\ \A e \in pairingCodes :
                    (e.key = socks[s].botId
                       /\ e.socket = MapGet(activeSockets, e.key).socket)
                    => e \in pairingCodes'
      ]_vars

\* C22: isConnected is true only while the current connection of the
\* default session is open; a 'close' event and clearSession leave it false
C22_ConnectedOnlyWhileOpen ==
    /\ [](isConnected => (conn # 0 /\ waSocks[conn] = "open"))
    /\ [][\A s \in 1..Len(waSocks), code \in StatusCodes, rm \in RemoveOutcomes :
            SessionClose(s, code, rm) => ~isConnected']_vars
    /\ [][\A rm \in RemoveOutcomes : SessionClear(rm) => ~isConnected']_vars

\* callbacks that are due run, and the clock moves on
Fairness ==
    /\ WF_vars(Tick /\ UNCHANGED <<req, session>>)
    /\ WF_vars(\E t \in timers : FireExpiry(t) /\ UNCHANGED <<req, session>>)
    /\ WF_vars(\E t \in timers, k \in RandomDraws, o \in Outcomes :
                  FireReconnect(t, k, o) /\ UNCHANGED <<req, session>>)

FairSpec == Spec /\ Fairness

====
